---- MODULE Spec2Model ----
(***************************************************************************)
(* Model of the key-step segment parser (parseKeySteps in                  *)
(* frontend/src/components/KeyStepRenderer.tsx) and of the reveal          *)
(* controller / session store described in the design document.            *)
(*                                                                         *)
(* A text is a sequence of one-character strings, so that indexOf, slice,  *)
(* trim and the two header regular expressions are computed character by   *)
(* character, as the JavaScript code computes them.  Indices are 0-based   *)
(* as in the source: the character at index i of s is s[i + 1].            *)
(***************************************************************************)
EXTENDS Integers, Sequences, FiniteSets, TLC

VARIABLES
    text,       \* parseKeySteps: the argument `text`
    remaining,  \* parseKeySteps: `remaining`
    segments,   \* parseKeySteps: `segments`
    spans,      \* history: for each pushed segment, the [from, to) range of `text` it was cut from
    pc,         \* parseKeySteps: "idle" before the call, "loop" in while(true), "done" after return
    sessions,   \* Session Store: the ordered collection of ChatSession
    activeId,   \* Session Store: the id of the active session
    reveal,     \* Reveal Controller: RevealState {targetMessageIndex, fullText, visibleText}
    collapse,   \* Collapse Registry: the message indices whose CollapseMap entry is true
    timers,     \* Reveal Controller: the interval timers that have not been stopped
    gen,        \* Reveal Controller: the number of reveals armed so far
    signals,    \* history: completion signals emitted for the reveal armed last
    stale,      \* history: a tick of a reveal armed earlier was applied after a newer one was armed
    cut         \* history: the reveal armed last replaced one that was mid-progress

parserVars == <<text, remaining, segments, spans, pc>>

viewVars == <<sessions, activeId, reveal, collapse, timers, gen, signals, stale, cut>>

----------------------------------------------------------------------------
\* Bounds of the model.

\* Longest input, counted in fragments of Frags.
MaxFrags == 5

\* Most sessions the store holds.
MaxSessions == 2

\* Most reveals armed in one run.
MaxArms == 2

\* Length of the long message, long enough for a reveal step above one character.
LongLen == 165

----------------------------------------------------------------------------
\* String primitives of JavaScript, on sequences of characters.

startTag == <<"[", "[", "K", "E", "Y", "_", "S", "T", "E", "P">>

endTag == <<"[", "[", "/", "K", "E", "Y", "_", "S", "T", "E", "P", "]", "]">>

headerClose == <<"]", "]">>

idPrefix == <<"i", "d", "=">>

theoremPrefix == <<"t", "h", "e", "o", "r", "e", "m", "=", "\"">>

quote == <<"\"">>

\* The characters the regular expression class \s and String.trim treat as white space.
WhiteSpace == {" ", "\t", "\n"}

Max(a, b) == IF a >= b THEN a ELSE b

Min(a, b) == IF a <= b THEN a ELSE b

\* pat occurs in s at 0-based index i.
MatchAt(s, pat, i) ==
    /\ i >= 0
    /\ i + Len(pat) <= Len(s)
    /\ \A j \in 1..Len(pat) : s[i + j] = pat[j]

RECURSIVE ScanFrom(_, _, _)
ScanFrom(s, pat, i) ==
    IF i + Len(pat) > Len(s) THEN -1
    ELSE IF MatchAt(s, pat, i) THEN i
    ELSE ScanFrom(s, pat, i + 1)

\* String.prototype.indexOf(pat, from): the first index >= from where pat occurs, or -1.
IndexOf(s, pat, from) == ScanFrom(s, pat, Min(Max(from, 0), Len(s)))

\* String.prototype.slice(a, b): negative indices count from the end, both are clamped.
Slice(s, a, b) ==
    LET from == IF a < 0 THEN Max(Len(s) + a, 0) ELSE Min(a, Len(s))
        to   == IF b < 0 THEN Max(Len(s) + b, 0) ELSE Min(b, Len(s))
    IN SubSeq(s, from + 1, to)

\* String.prototype.slice(a): to the end of the string.
SliceFrom(s, a) == Slice(s, a, Len(s))

RECURSIVE TrimStart(_)
TrimStart(s) ==
    IF s # <<>> /\ Head(s) \in WhiteSpace THEN TrimStart(Tail(s)) ELSE s

RECURSIVE TrimEnd(_)
TrimEnd(s) ==
    IF s # <<>> /\ s[Len(s)] \in WhiteSpace THEN TrimEnd(SubSeq(s, 1, Len(s) - 1)) ELSE s

\* String.prototype.trim()
Trim(s) == TrimEnd(TrimStart(s))

----------------------------------------------------------------------------
\* The two header regular expressions.  A match result is [has, val]: has is
\* FALSE when match() returned null (the field is then undefined).

Absent == [has |-> FALSE, val |-> <<>>]

Present(v) == [has |-> TRUE, val |-> v]

\* The end (exclusive) of the longest run of non-white-space characters starting at i.
RECURSIVE RunEnd(_, _)
RunEnd(s, i) ==
    IF i < Len(s) /\ s[i + 1] \notin WhiteSpace THEN RunEnd(s, i + 1) ELSE i

\* header.match(/id=([^\s]+)(\s|$)/): the leftmost "id=" that is followed by at
\* least one non-white-space character; the greedy run that follows always ends
\* at a white-space character or at the end, so group 1 is that whole run.
IdStarts(header) ==
    {i \in 0..Len(header) : MatchAt(header, idPrefix, i) /\ RunEnd(header, i + 3) > i + 3}

\* The least element of a non-empty set of integers.
Least(S) == CHOOSE x \in S : \A y \in S : x <= y

idMatch(header) ==
    IF IdStarts(header) = {} THEN Absent
    ELSE LET i == Least(IdStarts(header))
         IN Present(Slice(header, i + 3, RunEnd(header, i + 3)))

\* header.match(/theorem="([^"]*)"/): the leftmost `theorem="` after which some
\* `"` occurs; group 1 runs to the first `"` whatever precedes it.
TheoremStarts(header) ==
    {i \in 0..Len(header) : MatchAt(header, theoremPrefix, i) /\ IndexOf(header, quote, i + 9) # -1}

theoremMatch(header) ==
    IF TheoremStarts(header) = {} THEN Absent
    ELSE LET i == Least(TheoremStarts(header))
         IN Present(Slice(header, i + 9, IndexOf(header, quote, i + 9)))

----------------------------------------------------------------------------
\* parseKeySteps, statement by statement.

Normal(t) == [type |-> "normal", text |-> t, id |-> Absent, theorem |-> Absent]

\* const startIdx = remaining.indexOf(startTag)
startIdxOf(rem) == IndexOf(rem, startTag, 0)

\* The terminator search made greedy: the last terminator at or after the marker.
endIdxOfLast(rem, startIdx) ==
    LET ends == {i \in startIdx..Len(rem) : MatchAt(rem, endTag, i)}
    IN IF ends = {} THEN -1 ELSE CHOOSE i \in ends : \A j \in ends : j <= i

\* const endIdx = remaining.indexOf(endTag, startIdx)
endIdxOf(rem, startIdx) == IndexOf(rem, endTag, startIdx)

\* The final push without its test: an empty remainder is pushed too.
TrailingSegmentsAlways(rem) == <<Normal(rem)>>

\* if (remaining) segments.push({ type: "normal", text: remaining })
TrailingSegments(rem) == IF rem # <<>> THEN <<Normal(rem)>> ELSE <<>>

\* The leading push without its test: an empty text before the marker is pushed too.
LeadingSegmentsAlways(rem, startIdx) == <<Normal(Slice(rem, 0, startIdx))>>

\* if (startIdx > 0) segments.push({ type: "normal", text: remaining.slice(0, startIdx) })
LeadingSegments(rem, startIdx) ==
    IF startIdx > 0 THEN <<Normal(Slice(rem, 0, startIdx))>> ELSE <<>>

\* The malformed push without its slice: the text before the marker is repeated.
MalformedSegmentWhole(rem, startIdx) == Normal(rem)

\* segments.push({ type: "normal", text: remaining.slice(startIdx) })
MalformedSegment(rem, startIdx) == Normal(SliceFrom(rem, startIdx))

\* const tagAndContent = remaining.slice(startIdx, endIdx + endTag.length)
tagAndContentOf(rem, startIdx, endIdx) == Slice(rem, startIdx, endIdx + Len(endTag))

\* const headerEnd = tagAndContent.indexOf("]]")
headerEndOf(tagAndContent) == IndexOf(tagAndContent, headerClose, 0)

\* const header = tagAndContent.slice(startTag.length, headerEnd).trim()
headerOf(tagAndContent) ==
    Trim(Slice(tagAndContent, Len(startTag), headerEndOf(tagAndContent)))

\* const body = tagAndContent.slice(headerEnd + 2, -endTag.length)
bodyOf(tagAndContent) ==
    Slice(tagAndContent, headerEndOf(tagAndContent) + 2, 0 - Len(endTag))

\* segments.push({ type: "key", text: body, id: idMatch?.[1], theorem: theoremMatch?.[1] })
KeySegment(tagAndContent) ==
    [type    |-> "key",
     text    |-> bodyOf(tagAndContent),
     id      |-> idMatch(headerOf(tagAndContent)),
     theorem |-> theoremMatch(headerOf(tagAndContent))]

\* The loop without its last statement: remaining is never advanced.
nextRemainingUnchanged(rem, endIdx) == rem

\* remaining = remaining.slice(endIdx + endTag.length)
nextRemaining(rem, endIdx) == SliceFrom(rem, endIdx + Len(endTag))

\* The offset in `text` of the first character of `remaining`.
Base == Len(text) - Len(remaining)

Span(from, to) == [from |-> from, to |-> to]

\* The spans of the segments LeadingSegments pushes.
LeadingSpans(rem, startIdx) ==
    IF LeadingSegments(rem, startIdx) = <<>> THEN <<>> ELSE <<Span(Base, Base + startIdx)>>

\* The loop iteration that finds no start marker: lines 21-27.
NoStartTag ==
    /\ pc = "loop"
    /\ startIdxOf(remaining) = -1
    /\ segments' = segments \o TrailingSegments(remaining)
    /\ spans' = spans \o (IF TrailingSegments(remaining) = <<>> THEN <<>>
                          ELSE <<Span(Base, Len(text))>>)
    /\ pc' = "done"
    /\ UNCHANGED <<text, remaining>>
    /\ UNCHANGED viewVars

\* The loop iteration that finds a start marker and no terminator: lines 21-38.
MalformedTag ==
    LET startIdx == startIdxOf(remaining) IN
    /\ pc = "loop"
    /\ startIdx # -1
    /\ endIdxOf(remaining, startIdx) = -1
    /\ segments' = (segments \o LeadingSegments(remaining, startIdx))
                      \o <<MalformedSegment(remaining, startIdx)>>
    /\ spans' = (spans \o LeadingSpans(remaining, startIdx))
                   \o <<Span(Base + startIdx, Len(text))>>
    /\ pc' = "done"
    /\ UNCHANGED <<text, remaining>>
    /\ UNCHANGED viewVars

\* The loop iteration that finds a start marker and a terminator: lines 21-55.
KeyStep ==
    LET startIdx == startIdxOf(remaining)
        endIdx   == endIdxOf(remaining, startIdx)
    IN
    /\ pc = "loop"
    /\ startIdx # -1
    /\ endIdx # -1
    /\ segments' = (segments \o LeadingSegments(remaining, startIdx))
                      \o <<KeySegment(tagAndContentOf(remaining, startIdx, endIdx))>>
    /\ spans' = (spans \o LeadingSpans(remaining, startIdx))
                   \o <<Span(Base + startIdx, Base + endIdx + Len(endTag))>>
    /\ remaining' = nextRemaining(remaining, endIdx)
    /\ UNCHANGED <<text, pc>>
    /\ UNCHANGED viewVars

----------------------------------------------------------------------------
\* The input texts.

RECURSIVE Flatten(_)
Flatten(ss) == IF ss = <<>> THEN <<>> ELSE Head(ss) \o Flatten(Tail(ss))

\* The pieces the structural inputs are made of: the three markers, a letter,
\* and a lone bracket (which makes "]]]" and a "]]" out of two pieces).
Frags == {startTag, endTag, headerClose, <<"a">>, <<"]">>}

FragTexts == {Flatten(fs) : fs \in UNION {[1..k -> Frags] : k \in 0..MaxFrags}}

\* The id tokens and theorem texts the attribute inputs carry.
IdTokens == {<<"7">>, <<"k", "1">>}

HahnBanach == <<"H", "a", "h", "n", "-", "B", "a", "n", "a", "c", "h">>

SeeId == <<"s", "e", "e", " ", "i", "d", "=", "5">>

EscapedQuote == <<"a", "\\", "\"", "b">>

TheoremTexts == {HahnBanach, SeeId, EscapedQuote, <<>>}

proofBody == <<"p", "r", "o", "o", "f", " ", "b", "o", "d", "y">>

\* An attribute value that may be left out.
Optional(S) == {Absent} \cup {Present(v) : v \in S}

AttrChoices ==
    [id : Optional(IdTokens), theorem : Optional(TheoremTexts),
     idFirst : BOOLEAN, closed : BOOLEAN]

IdAttr(c) == IF c.id.has THEN <<" ">> \o idPrefix \o c.id.val ELSE <<>>

TheoremAttr(c) ==
    IF c.theorem.has THEN (<<" ">> \o theoremPrefix \o c.theorem.val) \o quote ELSE <<>>

\* [[KEY_STEP id=<token> theorem="<text>"]]proof body[[/KEY_STEP]], either
\* attribute left out, in either order, with or without the terminator.
AttrText(c) ==
    startTag
      \o (IF c.idFirst THEN IdAttr(c) \o TheoremAttr(c) ELSE TheoremAttr(c) \o IdAttr(c))
      \o headerClose \o proofBody
      \o (IF c.closed THEN endTag ELSE <<>>)

AttrTexts == {AttrText(c) : c \in AttrChoices}

Inputs == FragTexts \cup AttrTexts

----------------------------------------------------------------------------
\* The session store, the reveal controller and the collapse registry, as the
\* design document states them (its sections 3, 4.2, 4.3, 4.4 and 5).

\* targetMessageIndex = none; message indices start at 1.
NoTarget == 0

\* The number of increments a reveal is cut into.
RevealSteps == 80

Short == <<"x", "y", "z">>

Long == [i \in 1..LongLen |-> "a"]

\* The contents of assistant messages: empty, shorter and longer than RevealSteps.
Contents == {<<>>, Short, Long}

User(c) == [role |-> "user", content |-> c]

Assistant(c) == [role |-> "assistant", content |-> c]

\* The message lists the answering service delivers.
MessageLists ==
    {<<>>, <<Assistant(Short), User(<<"q">>)>>, <<Assistant(Long), Assistant(Short)>>}
      \cup {<<User(<<"q">>), Assistant(c)>> : c \in Contents}

ClearedReveal == [targetMessageIndex |-> NoTarget, fullText |-> <<>>, visibleText |-> <<>>]

ActiveMessages == sessions[activeId].messages

\* The index of the last assistant-authored message, or none.
LastAssistantIndex(msgs) ==
    LET A == {i \in 1..Len(msgs) : msgs[i].role = "assistant"}
    IN IF A = {} THEN NoTarget ELSE CHOOSE i \in A : \A j \in A : j <= i

\* The step without its lower bound of one character.
StepSizeFloor(fullText) == Len(fullText) \div RevealSteps

\* max(1, floor(fullText.length / 80)), computed once per reveal.
StepSize(fullText) == Max(1, Len(fullText) \div RevealSteps)

\* Arming without cancelling: the timer of the reveal in flight keeps running.
CancelTimersKeep(ts) == ts

\* Cancel-before-arm: every timer in flight is stopped.
CancelTimers(ts) == {}

\* The timer of a reveal: its generation and what its ticks work on.
Timer(g, index, fullText) ==
    [gen |-> g, index |-> index, fullText |-> fullText,
     step |-> StepSize(fullText), shown |-> 0]

\* A reveal is armed for msgs exactly when it has a last assistant message
\* whose content is not empty.
Arms(msgs) ==
    /\ LastAssistantIndex(msgs) # NoTarget
    /\ msgs[LastAssistantIndex(msgs)].content # <<>>

\* The reveal controller, given the newly finalized message list: the reveal
\* in flight is invalidated, and a new one is armed for the last assistant
\* message.  An empty fullText arms nothing.
Arm(msgs) ==
    LET i == LastAssistantIndex(msgs) IN
    /\ signals' = 0
    /\ IF Arms(msgs)
       THEN /\ reveal' = [targetMessageIndex |-> i, fullText |-> msgs[i].content,
                          visibleText |-> <<>>]
            /\ timers' = CancelTimers(timers) \cup {Timer(gen + 1, i, msgs[i].content)}
            /\ gen' = gen + 1
            /\ cut' = (reveal.targetMessageIndex # NoTarget /\ reveal.visibleText # <<>>)
       ELSE /\ reveal' = ClearedReveal
            /\ timers' = CancelTimers(timers)
            /\ gen' = gen
            /\ cut' = FALSE

\* The view state after a session switch: no reveal, nothing collapsed, no timer.
ResetView ==
    /\ reveal' = ClearedReveal
    /\ collapse' = {}
    /\ timers' = CancelTimers(timers)
    /\ signals' = 0
    /\ cut' = FALSE
    /\ UNCHANGED <<gen, stale>>

\* createSession(): a new session with an empty message list becomes active.
createSession ==
    /\ Len(sessions) < MaxSessions
    /\ sessions' = Append(sessions, [id |-> Len(sessions) + 1, title |-> Len(sessions) + 1,
                                     messages |-> <<>>])
    /\ activeId' = Len(sessions) + 1
    /\ ResetView
    /\ UNCHANGED parserVars

\* selectSession(id): a no-op for an unknown id.
selectSession ==
    /\ \E id \in 1..(MaxSessions + 1) :
           IF id \in 1..Len(sessions)
           THEN /\ activeId' = id
                /\ ResetView
                /\ UNCHANGED sessions
           ELSE UNCHANGED viewVars
    /\ UNCHANGED parserVars

\* The store with one message list shared by all sessions: every session gets msgs.
WithMessagesShared(ss, id, msgs) == [i \in 1..Len(ss) |-> [ss[i] EXCEPT !.messages = msgs]]

\* The store with the message list of session id overwritten by msgs.
WithMessages(ss, id, msgs) == [ss EXCEPT ![id].messages = msgs]

\* replaceActiveMessages(messages): the response of the answering service is
\* installed and the reveal controller armed for it.
replaceActiveMessages ==
    /\ gen < MaxArms
    /\ \E msgs \in MessageLists :
           /\ sessions' = WithMessages(sessions, activeId, msgs)
           /\ Arm(msgs)
    /\ UNCHANGED <<activeId, collapse, stale>>
    /\ UNCHANGED parserVars

\* One tick of a timer: the visible prefix grows by the step; when it would
\* reach the full length, the text is shown whole, the target cleared, the
\* message collapsed, the completion signalled and the timer stopped.
Tick ==
    /\ \E t \in timers :
           LET next == t.shown + t.step IN
           /\ IF next >= Len(t.fullText)
              THEN /\ reveal' = [reveal EXCEPT !.targetMessageIndex = NoTarget,
                                               !.visibleText = t.fullText]
                   /\ collapse' = collapse \cup {t.index}
                   /\ timers' = timers \ {t}
                   /\ signals' = signals + 1
              ELSE /\ reveal' = [reveal EXCEPT !.visibleText = SubSeq(t.fullText, 1, next)]
                   /\ timers' = (timers \ {t}) \cup {[t EXCEPT !.shown = next]}
                   /\ UNCHANGED <<collapse, signals>>
           /\ stale' = (stale \/ t.gen # gen)
    /\ UNCHANGED <<sessions, activeId, gen, cut>>
    /\ UNCHANGED parserVars

\* toggle(index): flips the collapse state of a message of the active session.
toggle ==
    /\ \E index \in 1..Len(ActiveMessages) :
           collapse' = IF index \in collapse THEN collapse \ {index} ELSE collapse \cup {index}
    /\ UNCHANGED <<sessions, activeId, reveal, timers, gen, signals, stale, cut>>
    /\ UNCHANGED parserVars

\* isCollapsed(index): false for an index with no entry.
isCollapsed(index) == index \in collapse

ViewInit ==
    /\ sessions = <<[id |-> 1, title |-> 1, messages |-> <<>>]>>
    /\ activeId = 1
    /\ reveal = ClearedReveal
    /\ collapse = {}
    /\ timers = {}
    /\ gen = 0
    /\ signals = 0
    /\ stale = FALSE
    /\ cut = FALSE

ParserInit ==
    /\ text = <<>>
    /\ remaining = <<>>
    /\ segments = <<>>
    /\ spans = <<>>
    /\ pc = "idle"

Init == ParserInit /\ ViewInit

\* KeyStepRenderer calls parseKeySteps(text): lines 15-19.
Call ==
    /\ pc = "idle"
    /\ \E t \in Inputs :
           /\ text' = t
           /\ remaining' = t
    /\ segments' = <<>>
    /\ spans' = <<>>
    /\ pc' = "loop"
    /\ UNCHANGED viewVars

Next == Call \/ NoStartTag \/ MalformedTag \/ KeyStep

ViewNext == createSession \/ selectSession \/ replaceActiveMessages \/ Tick \/ toggle

vars == <<text, remaining, segments, spans, pc,
          sessions, activeId, reveal, collapse, timers, gen, signals, stale, cut>>

\* The calls of parseKeySteps.
Spec == Init /\ [][Next]_vars

\* The events of the view: session operations, responses, ticks, toggles.
RevealSpec == Init /\ [][ViewNext]_vars

----------------------------------------------------------------------------
\* Vocabulary of the claims about parseKeySteps.

Done == pc = "done"

RECURSIVE ConcatTexts(_)
ConcatTexts(segs) ==
    IF segs = <<>> THEN <<>> ELSE Head(segs).text \o ConcatTexts(Tail(segs))

\* The positions of `t` where pat occurs.
Occurrences(t, pat) == {i \in 0..Len(t) : MatchAt(t, pat, i)}

HasStartTag(t) == Occurrences(t, startTag) # {}

KeyIndexes == {k \in 1..Len(segments) : segments[k].type = "key"}

\* For a region opened by the start marker at `from`: the index of the first
\* "]]" that follows the start marker (the header close), or -1.
HeaderCloseAfter(t, from) == IndexOf(t, headerClose, from + Len(startTag))

\* The input with every well-formed wrapper removed: a start marker, its header
\* up to the first "]]" after it, and the first terminator after that "]]".  A
\* start marker with no such "]]" or no such terminator is malformed: the text
\* from it onward is kept as it is.
RECURSIVE StripWrappers(_)
StripWrappers(t) ==
    LET s == IndexOf(t, startTag, 0)
        h == HeaderCloseAfter(t, s)
        e == IndexOf(t, endTag, h + 2)
    IN IF s = -1 \/ h = -1 \/ e = -1 THEN t
       ELSE (Slice(t, 0, s) \o Slice(t, h + 2, e)) \o StripWrappers(SliceFrom(t, e + Len(endTag)))

\* C1: segmentation completeness.  Once parseKeySteps has returned, the texts of
\* its segments, concatenated in order, are the input with every well-formed
\* key-step wrapper removed and everything else (bodies, outer text, a
\* malformed trailing tag) kept verbatim.
C1_SegmentationCompleteness == Done => ConcatTexts(segments) = StripWrappers(text)

\* The start markers of `t` that no terminator follows.
UnterminatedStarts(t) == {s \in Occurrences(t, startTag) : IndexOf(t, endTag, s) = -1}

\* C2: malformed-tag fallback.  When the input holds a start marker that no
\* terminator follows, the result ends with one Normal segment that is the whole
\* rest of the input from the first such marker, and no KeyStep is cut from that
\* rest.
C2_MalformedFallback ==
    (Done /\ UnterminatedStarts(text) # {}) =>
        LET s0 == Least(UnterminatedStarts(text))
            n  == Len(segments)
        IN /\ n >= 1
           /\ segments[n] = Normal(SliceFrom(text, s0))
           /\ spans[n] = Span(s0, Len(text))
           /\ \A k \in 1..(n - 1) : spans[k].to <= s0

\* C2 witness: "a" then an unterminated tag gives Normal("a"), Normal(the tag onward).
C2_Witness ==
    /\ Done
    /\ text = (<<"a">> \o startTag) \o (headerClose \o <<"a">>)
    /\ segments = <<Normal(<<"a">>), Normal((startTag \o headerClose) \o <<"a">>)>>

\* C3 as stated: an input with no start marker, the empty one included, gives
\* exactly one Normal segment equal to the input.
C3_NoTagOneSegment == (Done /\ ~HasStartTag(text)) => segments = <<Normal(text)>>

\* C3 amended: an input with no start marker gives exactly one Normal segment
\* equal to the input when it is not empty, and no segment at all when it is empty.
C3_NoTagPlainText ==
    (Done /\ ~HasStartTag(text)) =>
        segments = (IF text = <<>> THEN <<>> ELSE <<Normal(text)>>)

\* C3 witness: a text without start marker (a stray terminator in it) returned as one segment.
C3_Witness ==
    /\ Done
    /\ ~HasStartTag(text)
    /\ Occurrences(text, endTag) # {}
    /\ segments = <<Normal(text)>>

\* C4: the terminator is searched after the header close.  Every KeyStep
\* segment comes from a region whose header is closed by the first "]]" after
\* the start marker, whose terminator is the first one after that "]]", whose
\* body is exactly the text between the two, and after which scanning resumes.
C4_TerminatorAfterHeader ==
    \A k \in KeyIndexes :
        LET h == HeaderCloseAfter(text, spans[k].from)
            e == IndexOf(text, endTag, h + 2)
        IN /\ h # -1
           /\ e # -1
           /\ segments[k].text = Slice(text, h + 2, e)
           /\ spans[k].to = e + Len(endTag)

\* The attribute choices whose theorem text holds no quote character.
PlainAttrChoices ==
    {c \in AttrChoices : \A i \in 1..Len(c.theorem.val) : c.theorem.val[i] # "\""}

\* C5: attribute extraction with independent omission.  A well-formed key step
\* whose header carries any subset of id=<token> and theorem="<text>" gives one
\* KeyStep whose id is the token when given and absent when not, and whose
\* theorem is the quoted text when given and absent when not.
C5_AttributeExtraction ==
    Done =>
        \A c \in PlainAttrChoices :
            (c.closed /\ text = AttrText(c)) =>
                segments = <<[type |-> "key", text |-> proofBody,
                              id |-> c.id, theorem |-> c.theorem]>>

\* The index of the first quote at or after i that no backslash escapes, or -1.
RECURSIVE UnescapedQuote(_, _)
UnescapedQuote(s, i) ==
    IF i >= Len(s) THEN -1
    ELSE IF s[i + 1] = "\\" THEN UnescapedQuote(s, i + 2)
    ELSE IF s[i + 1] = "\"" THEN i
    ELSE UnescapedQuote(s, i + 1)

\* C6: the theorem value of a KeyStep is everything between `theorem="` and the
\* next unescaped quote of its header: an escaped quote does not end it.
C6_TheoremToUnescapedQuote ==
    \A k \in KeyIndexes :
        LET from   == spans[k].from + Len(startTag)
            header == Slice(text, from, HeaderCloseAfter(text, spans[k].from))
            i      == IndexOf(header, theoremPrefix, 0)
            q      == UnescapedQuote(header, i + Len(theoremPrefix))
        IN (i # -1 /\ q # -1) =>
               segments[k].theorem = Present(Slice(header, i + Len(theoremPrefix), q))

\* C7: no nesting.  Every KeyStep region is closed at the first terminator after
\* its header close, the start markers inside its body are part of its text,
\* and no segment is cut from inside the region.
C7_NoNesting ==
    \A k \in KeyIndexes :
        LET h    == HeaderCloseAfter(text, spans[k].from)
            e    == IndexOf(text, endTag, h + 2)
        IN /\ h # -1
           /\ spans[k].to = e + Len(endTag)
           /\ \A p \in Occurrences(text, startTag) :
                  (h + 2 <= p /\ p < e) =>
                      /\ MatchAt(segments[k].text, startTag, p - (h + 2))
                      /\ \A j \in 1..Len(segments) : spans[j].from # p

\* C8: totality.  Every loop iteration either returns or strictly shortens the
\* remaining text, on every input (unterminated tags, headers without
\* attributes, stray terminators, adjacent markers): the length of the remaining
\* text is a measure that bounds the number of iterations by Len(text) + 1, so
\* the call returns.
C8_Totality ==
    [][pc = "loop" => (pc' = "done" \/ Len(remaining') < Len(remaining))]_vars

\* C8 witness: a call that went twice round the loop and returned, a stray
\* terminator left in its last segment.
C8_Witness ==
    /\ Done
    /\ Cardinality(KeyIndexes) >= 2
    /\ segments[Len(segments)].type = "normal"
    /\ Occurrences(segments[Len(segments)].text, endTag) # {}

----------------------------------------------------------------------------
\* Vocabulary of the claims about the reveal controller.

IsPrefix(p, t) == Len(p) <= Len(t) /\ SubSeq(t, 1, Len(p)) = p

Revealing == reveal.targetMessageIndex # NoTarget

\* What one tick does to the reveal: the visible text stays a prefix of the
\* same full text and grows; the tick that reaches the full length is the one
\* that signals completion, clears the target and stops the timer.
TickEffect ==
    /\ reveal'.fullText = reveal.fullText
    /\ IsPrefix(reveal'.visibleText, reveal.fullText)
    /\ Len(reveal'.visibleText) > Len(reveal.visibleText)
    /\ IF Len(reveal'.visibleText) = Len(reveal.fullText)
       THEN signals = 0 /\ signals' = 1 /\ ~Revealing' /\ timers' = {}
       ELSE signals = 0 /\ signals' = 0 /\ Revealing' /\ timers' # {}
            /\ reveal'.targetMessageIndex = reveal.targetMessageIndex

\* What holds between ticks: a reveal in progress has a non-empty full text, a
\* proper prefix of it visible, no completion signalled yet and its timer
\* running, which advances by at least one character; with no reveal in
\* progress no timer is left to tick; completion is signalled at most once,
\* with the whole text visible.
RevealState ==
    /\ IsPrefix(reveal.visibleText, reveal.fullText)
    /\ Revealing <=> timers # {}
    /\ \A t \in timers : t.step >= 1 /\ t.shown = Len(reveal.visibleText)
    /\ Revealing => /\ reveal.fullText # <<>>
                    /\ Len(reveal.visibleText) < Len(reveal.fullText)
                    /\ signals = 0
    /\ signals <= 1
    /\ signals = 1 => reveal.visibleText = reveal.fullText

----------------------------------------------------------------------------
\* Vocabulary of the claims about the session store.

SessionIds == 1..Len(sessions)

----------------------------------------------------------------------------
\* parseKeySteps as a function of its argument: the segments the loop returns.

RECURSIVE parseKeySteps(_)
parseKeySteps(t) ==
    LET startIdx == startIdxOf(t) IN
    IF startIdx = -1 THEN TrailingSegments(t)
    ELSE LET endIdx == endIdxOf(t, startIdx) IN
         IF endIdx = -1
         THEN LeadingSegments(t, startIdx) \o <<MalformedSegment(t, startIdx)>>
         ELSE (LeadingSegments(t, startIdx)
                  \o <<KeySegment(tagAndContentOf(t, startIdx, endIdx))>>)
                  \o parseKeySteps(nextRemaining(t, endIdx))

----------------------------------------------------------------------------
\* Vocabulary of the claims about the progressive reveal of a parsed text.

IsKey(seg) == seg.type = "key"

KeysOf(segs) == SelectSeq(segs, IsKey)

\* The segments after the last KeyStep of segs (all of segs when it has none).
AfterLastKey(segs) ==
    LET ks == {k \in 1..Len(segs) : IsKey(segs[k])}
        last == IF ks = {} THEN 0 ELSE CHOOSE k \in ks : \A j \in ks : j <= k
    IN SubSeq(segs, last + 1, Len(segs))

\* The end, in `text`, of the region the j-th KeyStep of `segments` was cut
\* from; 0 for j = 0.
KeyEnd(j) ==
    IF j = 0 THEN 0
    ELSE spans[CHOOSE k \in KeyIndexes : Cardinality({i \in KeyIndexes : i <= k}) = j].to

\* What parseKeySteps returns for the first n characters of `text`, against
\* what it returned for `text`: the KeySteps shown are the first ones of the
\* full result, each with its terminator inside the n characters, and what
\* follows the last of them is shown as Normal text, character for character.
StableAt(n) ==
    LET shown == parseKeySteps(SubSeq(text, 1, n))
        keys  == KeysOf(shown)
        all   == KeysOf(segments)
    IN /\ Len(keys) <= Len(all)
       /\ keys = SubSeq(all, 1, Len(keys))
       /\ KeyEnd(Len(keys)) <= n
       /\ ConcatTexts(AfterLastKey(shown)) = SubSeq(text, KeyEnd(Len(keys)) + 1, n)

\* C12: prefix stability under progressive reveal.  For every prefix of the
\* text, the KeySteps parseKeySteps returns for the prefix are, in order and
\* with the same text, id and theorem, the first KeySteps it returns for the
\* text; a KeyStep is shown only once its terminator is in the prefix, and the
\* part of the prefix after the last KeyStep shown, an unterminated region
\* included, is returned as Normal text.
C12_PrefixStability ==
    Done => /\ segments = parseKeySteps(text)
            /\ \A n \in 0..Len(text) : StableAt(n)

\* C12 witness: a text with two KeySteps and an unterminated region after them,
\* so that its prefixes show none, one and two KeySteps.
C12_Witness ==
    /\ Done
    /\ Len(KeysOf(segments)) = 2
    /\ segments[Len(segments)].type = "normal"
    /\ HasStartTag(segments[Len(segments)].text)
    /\ \E n \in 0..Len(text) :
           /\ Len(KeysOf(parseKeySteps(SubSeq(text, 1, n)))) = 1
           /\ HasStartTag(ConcatTexts(AfterLastKey(parseKeySteps(SubSeq(text, 1, n)))))

----------------------------------------------------------------------------
\* Vocabulary of the claims about the Normal segments of a result.

NormalIndexes == {k \in 1..Len(segments) : segments[k].type = "normal"}

\* C13: in every result of parseKeySteps no Normal segment has empty text; a
\* Normal segment whose text contains the start marker is the last segment of
\* the result and its text begins with the marker; every other Normal segment
\* contains no start marker.
C13_NormalSegments ==
    Done => \A k \in NormalIndexes :
                /\ segments[k].text # <<>>
                /\ HasStartTag(segments[k].text) =>
                       /\ k = Len(segments)
                       /\ MatchAt(segments[k].text, startTag, 0)

\* C13 witness: a result with a Normal segment before a KeyStep and the
\* malformed-tag fallback as its last segment.
C13_Witness ==
    /\ Done
    /\ Len(segments) >= 3
    /\ 1 \in NormalIndexes
    /\ ~HasStartTag(segments[1].text)
    /\ KeyIndexes # {}
    /\ Len(segments) \in NormalIndexes
    /\ HasStartTag(segments[Len(segments)].text)

====
